---- MODULE Spec2Model ----
(***************************************************************************)
(* Chess-Boot rules engine.  Two engines live in the repository:           *)
(*   - the UI engine, src/chess-prototype/src/engine/engine.js (the part   *)
(*     from line 471 on: Zobrist, SAN, promotions, game status), modelled  *)
(*     under the source's own names;                                       *)
(*   - the CommonJS engine the Jest tests load, src/engine/engine.js,      *)
(*     modelled under the same names with the prefix core_.                *)
(* A behaviour is a game: Init draws a position and an engine, every step  *)
(* applies one move returned by that engine's getLegalMoves for a piece    *)
(* of the side to move.  SpecRepetition plays a game of piece shuffles     *)
(* from the initial position, long enough for positions to repeat; SpecUI  *)
(* drives the App component of src/chess-prototype/src/App.jsx by its      *)
(* events (square clicks, promotion choice, Claim draw, Reset).            *)
(***************************************************************************)
EXTENDS Integers, Sequences, FiniteSets, TLC

\* state:  the GameState the caller holds
\* prev:   the GameState the last applyMove call received
\* move:   the Move the last applyMove call received (NoMove before any call)
\* engine: which engine file the caller loaded
\* ply:    number of applyMove calls so far
\* limit:  number of applyMove calls explored in this game
\* origin: the GameState the App (or the test) started from
\* status: what getGameStatus returned for `state` when the move was performed
\* thrown: the error the last applyMove call raised (NoError when it returned)
\* reached: the positions the game went through, the start first
\* seed:   number of rand64 calls made since the engine module was loaded
\* ui:     the App component's selection state
VARIABLES state, prev, move, engine, ply, limit, origin, status, thrown,
          reached, seed, ui

vars == <<state, prev, move, engine, ply, limit, origin, status, thrown,
          reached, seed, ui>>

\* Number of moves applied in one explored game.
MaxPly == 2

\* Number of moves applied from CornerPosition, where few moves are legal.
MaxLinePly == 3

\* Number of moves applied in a game of piece shuffles from createInitialState
\* (a position is reached for the third time after eight moves at the
\* earliest).
MaxShufflePly == 9

\* Number of moves applied through the App's handlers (one move more than
\* the first third occurrence of a position other than the initial one).
MaxUIPly == 10

\* Number of createInitialState calls the App makes (the first game and one
\* game started by Reset or Claim draw).
MaxGames == 2

\* Number of moves applied from the full initial position of createInitialState
\* (32 pieces: the branching is about 20 per ply).
MaxOpeningPly == 2

(***************************************************************************)
(* Data model                                                              *)
(***************************************************************************)
Rows == 0..7

Colors == {"w", "b"}

\* a board cell holding null
Empty == [t |-> "-", c |-> "-"]

\* a square variable holding null (enPassantTarget, a king that is not found)
NoSquare == [r |-> -1, f |-> -1]

\* lastMove = null
NoMove == [from |-> NoSquare, to |-> NoSquare, promotion |-> "-",
           isEnPassant |-> FALSE, isCastling |-> FALSE]

Pc(t, c) == [t |-> t, c |-> c]

Sq(r, f) == [r |-> r, f |-> f]

\* the object literal { from, to } ; absent optional fields read as falsy
Mv(from, to) == [from |-> from, to |-> to, promotion |-> "-",
                 isEnPassant |-> FALSE, isCastling |-> FALSE]

Abs(x) == IF x < 0 THEN -x ELSE x

RECURSIVE ConcatAll(_)
ConcatAll(ss) == IF ss = <<>> THEN <<>> ELSE Head(ss) \o ConcatAll(Tail(ss))

inside(r, f) == r >= 0 /\ r < 8 /\ f >= 0 /\ f < 8

createEmptyBoard == [r \in Rows |-> [f \in Rows |-> Empty]]

\* An array the engine writes to is either an array of the state the caller
\* passed in or a new one the call made.
InputArray(cells) == [ofInput |-> TRUE, cells |-> cells]

NewArray(cells) == [ofInput |-> FALSE, cells |-> cells]

\* faulty variant of cloneBoard: the board array itself is returned
cloneBoard_SameArray(board) == InputArray(board)

\* board.map((r) => r.map((c) => (c ? { ...c } : null))): new rows in a new
\* array
cloneBoard(board) == NewArray(board)

\* src/engine/engine.js cloneBoard
core_cloneBoard(board) == NewArray(board)

\* what the array of the caller's state holds once the call has written
\* `written` through the reference `ref`
AfterWrites(ref, written) == IF ref.ofInput THEN written ELSE ref.cells

backRank == <<"r", "n", "b", "q", "k", "b", "n", "r">>

InitialBoard ==
  [r \in Rows |-> [f \in Rows |->
     IF r = 0 THEN Pc(backRank[f + 1], "b")
     ELSE IF r = 1 THEN Pc("p", "b")
     ELSE IF r = 6 THEN Pc("p", "w")
     ELSE IF r = 7 THEN Pc(backRank[f + 1], "w")
     ELSE Empty]]

(***************************************************************************)
(* Zobrist hashing                                                         *)
(***************************************************************************)
\* rand64 advances the module-level seed on every call, so the value a call
\* returns is fixed by the number of calls made before it.  The model names
\* the value by that number, and takes the values of different calls to be
\* different and independent under exclusive-or: a xor of values is the set
\* of the values that occur in it an odd number of times.
rand64(calls) == calls

pieceTypes == <<"p", "n", "b", "r", "q", "k">>

TypeIndex(t) == CHOOSE i \in 0..5 : pieceTypes[i + 1] = t

\* the position of the call that fills table[`${c}${t}${r}${f}`] in the
\* four nested loops of createZobrist
TableSlot(c, t, r, f) ==
  (((IF c = "w" THEN 0 ELSE 1) * 6 + TypeIndex(t)) * 8 + r) * 8 + f

\* createZobrist called when rand64 has been called `calls` times: 768 table
\* entries, side, castling K Q k q, eight epFile entries, in this order.  The
\* table and the epFile array are kept as the number of the call that filled
\* their first entry; tableEntry and epFileEntry read an entry.
createZobrist(calls) ==
  [table |-> calls,
   side |-> rand64(calls + 768),
   castling |-> [K |-> rand64(calls + 769), Q |-> rand64(calls + 770),
                 k |-> rand64(calls + 771), q |-> rand64(calls + 772)],
   epFile |-> calls + 773]

\* state.zobrist.table[`${p.c}${p.t}${r}${f}`]
tableEntry(zobrist, p, r, f) == rand64(zobrist.table + TableSlot(p.c, p.t, r, f))

\* state.zobrist.epFile[f]
epFileEntry(zobrist, f) == rand64(zobrist.epFile + f)

\* number of rand64 calls one createZobrist makes
ZobristCalls == 781

\* h ^= x
Xor(h, x) == IF x \in h THEN h \ {x} ELSE h \cup {x}

RECURSIVE XorAll(_, _)
XorAll(h, xs) == IF xs = <<>> THEN h ELSE XorAll(Xor(h, Head(xs)), Tail(xs))

computeHash(st) ==
  LET cells == ConcatAll([r \in 1..8 |-> ConcatAll([f \in 1..8 |->
                 LET p == st.board[r - 1][f - 1]
                 IN IF p # Empty THEN <<tableEntry(st.zobrist, p, r - 1, f - 1)>>
                    ELSE <<>>])])
      side == IF st.turn = "b" THEN <<st.zobrist.side>> ELSE <<>>
      wK == IF st.whiteCanCastleK THEN <<st.zobrist.castling.K>> ELSE <<>>
      wQ == IF st.whiteCanCastleQ THEN <<st.zobrist.castling.Q>> ELSE <<>>
      bK == IF st.blackCanCastleK THEN <<st.zobrist.castling.k>> ELSE <<>>
      bQ == IF st.blackCanCastleQ THEN <<st.zobrist.castling.q>> ELSE <<>>
      ep == IF st.enPassantTarget # NoSquare
            THEN <<epFileEntry(st.zobrist, st.enPassantTarget.f)>> ELSE <<>>
  IN XorAll({}, cells \o side \o wK \o wQ \o bK \o bQ \o ep)

\* positionCounts.get(h) || 0
CountOf(counts, h) == IF h \in DOMAIN counts THEN counts[h] ELSE 0

\* new Map(counts).set(h, c)
WithCount(counts, h, c) ==
  [x \in DOMAIN counts \cup {h} |-> IF x = h THEN c ELSE counts[x]]

\* new Map()
NoCounts == [x \in {} |-> 0]

(***************************************************************************)
(* Initial state                                                           *)
(***************************************************************************)
\* createInitialState called when rand64 has been called `calls` times
createInitialStateAfter(calls) ==
  LET st == [board |-> InitialBoard,
             turn |-> "w",
             whiteCanCastleK |-> TRUE,
             whiteCanCastleQ |-> TRUE,
             blackCanCastleK |-> TRUE,
             blackCanCastleQ |-> TRUE,
             enPassantTarget |-> NoSquare,
             halfmoveClock |-> 0,
             fullmoveNumber |-> 1,
             lastMove |-> NoMove,
             moveHistory |-> <<>>,
             positionCounts |-> NoCounts,
             threefoldAvailable |-> FALSE,
             zobrist |-> createZobrist(calls)]
  IN [st EXCEPT !.positionCounts = WithCount(@, computeHash(st), 1)]

\* the first createInitialState call after the module is loaded
createInitialState == createInitialStateAfter(0)

Opp(color) == IF color = "w" THEN "b" ELSE "w"

(***************************************************************************)
(* Attack and check detection                                              *)
(***************************************************************************)
knightD == << <<-2, -1>>, <<-2, 1>>, <<-1, -2>>, <<-1, 2>>,
              <<1, -2>>, <<1, 2>>, <<2, -1>>, <<2, 1>> >>

\* the (dr, df) pairs of the double loop dr = -1..1, df = -1..1 without (0, 0)
kingD == << <<-1, -1>>, <<-1, 0>>, <<-1, 1>>, <<0, -1>>,
            <<0, 1>>, <<1, -1>>, <<1, 0>>, <<1, 1>> >>

diagDirs == << <<-1, -1>>, <<-1, 1>>, <<1, -1>>, <<1, 1>> >>

straightDirs == << <<-1, 0>>, <<1, 0>>, <<0, -1>>, <<0, 1>> >>

\* The while loop of a ray walk: the first non-null cell met from (rr, ff) on,
\* stepping by (dr, df); Empty when the walk leaves the board.
RECURSIVE FirstOnRay(_, _, _, _, _)
FirstOnRay(board, rr, ff, dr, df) ==
  IF ~inside(rr, ff) THEN Empty
  ELSE IF board[rr][ff] # Empty THEN board[rr][ff]
  ELSE FirstOnRay(board, rr + dr, ff + df, dr, df)

isSquareAttacked(st, sq, byColor) ==
  IF sq = NoSquare THEN FALSE
  ELSE
    LET board == st.board
        r == sq.r
        f == sq.f
        pawnDir == IF byColor = "w" THEN 1 ELSE -1
        dirs == diagDirs \o straightDirs
    IN \/ \E df \in {-1, 1} :
            /\ inside(r + pawnDir, f + df)
            /\ board[r + pawnDir][f + df] = Pc("p", byColor)
       \/ \E i \in 1..8 :
            /\ inside(r + knightD[i][1], f + knightD[i][2])
            /\ board[r + knightD[i][1]][f + knightD[i][2]] = Pc("n", byColor)
       \/ \E i \in 1..8 :
            LET dr == dirs[i][1]
                df == dirs[i][2]
                p == FirstOnRay(board, r + dr, f + df, dr, df)
            IN /\ p # Empty
               /\ p.c = byColor
               /\ \/ p.t = "q"
                  \/ (p.t = "b" /\ Abs(dr) = 1)
                  \/ (p.t = "r" /\ dr * df = 0)
       \/ \E i \in 1..8 :
            /\ inside(r + kingD[i][1], f + kingD[i][2])
            /\ board[r + kingD[i][1]][f + kingD[i][2]] = Pc("k", byColor)

core_isSquareAttacked(st, square, byColor) ==
  LET board == st.board
      r == square.r
      f == square.f
      enemy == byColor
      ar == IF enemy = "w" THEN r + 1 ELSE r - 1
  IN \/ (inside(ar, f - 1) /\ board[ar][f - 1] = Pc("p", enemy))
     \/ (inside(ar, f + 1) /\ board[ar][f + 1] = Pc("p", enemy))
     \/ \E i \in 1..8 :
          /\ inside(r + knightD[i][1], f + knightD[i][2])
          /\ board[r + knightD[i][1]][f + knightD[i][2]] = Pc("n", enemy)
     \/ \E i \in 1..8 :
          /\ inside(r + kingD[i][1], f + kingD[i][2])
          /\ board[r + kingD[i][1]][f + kingD[i][2]] = Pc("k", enemy)
     \/ \E i \in 1..4 :
          LET p == FirstOnRay(board, r + diagDirs[i][1], f + diagDirs[i][2],
                              diagDirs[i][1], diagDirs[i][2])
          IN p # Empty /\ p.c = enemy /\ (p.t = "b" \/ p.t = "q")
     \/ \E i \in 1..4 :
          LET p == FirstOnRay(board, r + straightDirs[i][1], f + straightDirs[i][2],
                              straightDirs[i][1], straightDirs[i][2])
          IN p # Empty /\ p.c = enemy /\ (p.t = "r" \/ p.t = "q")

\* row-major scan for the first king of the colour; null when there is none
findKing(st, color) ==
  LET ks == {i \in 0..63 : st.board[i \div 8][i % 8] = Pc("k", color)}
  IN IF ks = {} THEN NoSquare
     ELSE LET i == CHOOSE k \in ks : \A j \in ks : k <= j
          IN Sq(i \div 8, i % 8)

isInCheck(st, color) ==
  LET king == findKing(st, color)
  IN IF king = NoSquare THEN FALSE
     ELSE isSquareAttacked(st, king, Opp(color))

core_isInCheck(st, color) ==
  LET king == findKing(st, color)
  IN IF king = NoSquare THEN FALSE
     ELSE core_isSquareAttacked(st, king, Opp(color))

(***************************************************************************)
(* Pseudo-legal move generation                                            *)
(***************************************************************************)
\* knight and king steps: the offsets ds taken in order, kept when the
\* destination is on the board and is null or holds the other colour
StepMoves(board, from, color, ds) ==
  ConcatAll([i \in 1..Len(ds) |->
    LET rr == from.r + ds[i][1]
        ff == from.f + ds[i][2]
    IN IF ~inside(rr, ff) THEN <<>>
       ELSE IF board[rr][ff] = Empty \/ board[rr][ff].c # color
            THEN <<Mv(from, Sq(rr, ff))>>
            ELSE <<>>])

CastleMv(from, to) == [Mv(from, to) EXCEPT !.isCastling = TRUE]

\* faulty variant of CastlingCandidates: the castling-rights flags are not consulted
CastlingCandidates_IgnoreRights(st, from, color) ==
  LET board == st.board
      row == IF color = "w" THEN 7 ELSE 0
  IN IF from.r = row /\ from.f = 4
     THEN (IF /\ board[row][5] = Empty /\ board[row][6] = Empty
              /\ board[row][7] = Pc("r", color)
           THEN <<CastleMv(from, Sq(row, 6))>> ELSE <<>>)
          \o
          (IF /\ board[row][3] = Empty /\ board[row][2] = Empty /\ board[row][1] = Empty
              /\ board[row][0] = Pc("r", color)
           THEN <<CastleMv(from, Sq(row, 2))>> ELSE <<>>)
     ELSE <<>>

CastlingCandidates(st, from, color) ==
  LET board == st.board
      white ==
        IF color = "w" /\ from.r = 7 /\ from.f = 4
        THEN (IF /\ st.whiteCanCastleK
                 /\ board[7][5] = Empty /\ board[7][6] = Empty
                 /\ board[7][7] = Pc("r", "w")
              THEN <<CastleMv(from, Sq(7, 6))>> ELSE <<>>)
             \o
             (IF /\ st.whiteCanCastleQ
                 /\ board[7][3] = Empty /\ board[7][2] = Empty /\ board[7][1] = Empty
                 /\ board[7][0] = Pc("r", "w")
              THEN <<CastleMv(from, Sq(7, 2))>> ELSE <<>>)
        ELSE <<>>
      black ==
        IF color = "b" /\ from.r = 0 /\ from.f = 4
        THEN (IF /\ st.blackCanCastleK
                 /\ board[0][5] = Empty /\ board[0][6] = Empty
                 /\ board[0][7] = Pc("r", "b")
              THEN <<CastleMv(from, Sq(0, 6))>> ELSE <<>>)
             \o
             (IF /\ st.blackCanCastleQ
                 /\ board[0][3] = Empty /\ board[0][2] = Empty /\ board[0][1] = Empty
                 /\ board[0][0] = Pc("r", "b")
              THEN <<CastleMv(from, Sq(0, 2))>> ELSE <<>>)
        ELSE <<>>
  IN white \o black

PromoMoves(from, to) ==
  [i \in 1..4 |-> [Mv(from, to) EXCEPT !.promotion = <<"q", "r", "b", "n">>[i]]]

EnPassantMoves(st, from, rr, ff) ==
  IF /\ st.enPassantTarget # NoSquare
     /\ st.enPassantTarget.r = rr
     /\ st.enPassantTarget.f = ff
  THEN <<[Mv(from, Sq(rr, ff)) EXCEPT !.isEnPassant = TRUE]>>
  ELSE <<>>

PawnMoves(st, from, p) ==
  LET board == st.board
      opp == Opp(p.c)
      dir == IF p.c = "w" THEN -1 ELSE 1
      oneR == from.r + dir
      promotionRow == IF p.c = "w" THEN 0 ELSE 7
      startRow == IF p.c = "w" THEN 6 ELSE 1
      twoR == from.r + dir * 2
      forward ==
        IF inside(oneR, from.f) /\ board[oneR][from.f] = Empty
        THEN IF oneR = promotionRow
             THEN PromoMoves(from, Sq(oneR, from.f))
             ELSE <<Mv(from, Sq(oneR, from.f))>> \o
                  (IF /\ from.r = startRow
                      /\ inside(twoR, from.f)
                      /\ board[twoR][from.f] = Empty
                   THEN <<Mv(from, Sq(twoR, from.f))>> ELSE <<>>)
        ELSE <<>>
      capture(df) ==
        LET rr == from.r + dir
            ff == from.f + df
        IN IF ~inside(rr, ff) THEN <<>>
           ELSE (IF board[rr][ff] # Empty /\ board[rr][ff].c = opp
                 THEN (IF rr = promotionRow
                       THEN PromoMoves(from, Sq(rr, ff))
                       ELSE <<Mv(from, Sq(rr, ff))>>)
                 ELSE <<>>)
                \o EnPassantMoves(st, from, rr, ff)
  IN forward \o capture(-1) \o capture(1)

\* src/engine/engine.js: no promotion row, every pawn move is a plain move
core_PawnMoves(st, from, p) ==
  LET board == st.board
      opp == Opp(p.c)
      dir == IF p.c = "w" THEN -1 ELSE 1
      oneR == from.r + dir
      startRow == IF p.c = "w" THEN 6 ELSE 1
      twoR == from.r + dir * 2
      forward ==
        IF inside(oneR, from.f) /\ board[oneR][from.f] = Empty
        THEN <<Mv(from, Sq(oneR, from.f))>> \o
             (IF /\ from.r = startRow
                 /\ inside(twoR, from.f)
                 /\ board[twoR][from.f] = Empty
              THEN <<Mv(from, Sq(twoR, from.f))>> ELSE <<>>)
        ELSE <<>>
      capture(df) ==
        LET rr == from.r + dir
            ff == from.f + df
        IN IF ~inside(rr, ff) THEN <<>>
           ELSE (IF board[rr][ff] # Empty /\ board[rr][ff].c = opp
                 THEN <<Mv(from, Sq(rr, ff))>>
                 ELSE <<>>)
                \o EnPassantMoves(st, from, rr, ff)
  IN forward \o capture(-1) \o capture(1)

\* one direction of a sliding piece: every null square, then the blocking
\* square when it holds the other colour
RECURSIVE SlideRay(_, _, _, _, _, _, _)
SlideRay(board, from, color, rr, ff, dr, df) ==
  IF ~inside(rr, ff) THEN <<>>
  ELSE IF board[rr][ff] = Empty
       THEN <<Mv(from, Sq(rr, ff))>> \o
            SlideRay(board, from, color, rr + dr, ff + df, dr, df)
       ELSE IF board[rr][ff].c # color THEN <<Mv(from, Sq(rr, ff))>> ELSE <<>>

slideDirs(t) ==
  IF t = "b" THEN diagDirs
  ELSE IF t = "r" THEN straightDirs
  ELSE diagDirs \o straightDirs

SlideMoves(board, from, p) ==
  LET dirs == slideDirs(p.t)
  IN ConcatAll([i \in 1..Len(dirs) |->
       SlideRay(board, from, p.c, from.r + dirs[i][1], from.f + dirs[i][2],
                dirs[i][1], dirs[i][2])])

\* faulty variant of getPseudoLegalMoves: the guard for an empty square is
\* missing and the call fails reading p.c of null, shown as a list holding
\* the null move
getPseudoLegalMoves_NoEmptyGuard(st, from) ==
  LET board == st.board
      p == board[from.r][from.f]
  IN IF p = Empty THEN <<NoMove>>
     ELSE IF p.t = "n" THEN StepMoves(board, from, p.c, knightD)
     ELSE IF p.t = "k"
          THEN StepMoves(board, from, p.c, kingD) \o CastlingCandidates(st, from, p.c)
     ELSE IF p.t = "p" THEN PawnMoves(st, from, p)
     ELSE IF p.t \in {"b", "r", "q"} THEN SlideMoves(board, from, p)
     ELSE <<>>

getPseudoLegalMoves(st, from) ==
  LET board == st.board
      p == board[from.r][from.f]
  IN IF p = Empty THEN <<>>
     ELSE IF p.t = "n" THEN StepMoves(board, from, p.c, knightD)
     ELSE IF p.t = "k"
          THEN StepMoves(board, from, p.c, kingD) \o CastlingCandidates(st, from, p.c)
     ELSE IF p.t = "p" THEN PawnMoves(st, from, p)
     ELSE IF p.t \in {"b", "r", "q"} THEN SlideMoves(board, from, p)
     ELSE <<>>

core_getPseudoLegalMoves(st, from) ==
  LET board == st.board
      p == board[from.r][from.f]
  IN IF p = Empty THEN <<>>
     ELSE IF p.t = "n" THEN StepMoves(board, from, p.c, knightD)
     ELSE IF p.t = "k"
          THEN StepMoves(board, from, p.c, kingD) \o CastlingCandidates(st, from, p.c)
     ELSE IF p.t = "p" THEN core_PawnMoves(st, from, p)
     ELSE IF p.t \in {"b", "r", "q"} THEN SlideMoves(board, from, p)
     ELSE <<>>

(***************************************************************************)
(* Move application                                                        *)
(***************************************************************************)
SetCell(board, r, f, v) == [board EXCEPT ![r][f] = v]

\* faulty variant of RelocateRook: the rook is copied next to the king and the corner
\* is not cleared
RelocateRook_CornerKept(b, m) ==
  LET r == m.from.r
  IN IF m.to.f = 6 THEN SetCell(b, r, 5, b[r][7]) ELSE SetCell(b, r, 3, b[r][0])

\* the castling branch: the rook goes from the corner to the square next to
\* the king's destination (file 6: from file 7 to file 5; otherwise from
\* file 0 to file 3)
RelocateRook(b, m) ==
  LET r == m.from.r
  IN IF m.to.f = 6
     THEN SetCell(SetCell(b, r, 5, b[r][7]), r, 7, Empty)
     ELSE SetCell(SetCell(b, r, 3, b[r][0]), r, 0, Empty)

\* faulty variant of MovedBoard: the promotion tag is ignored, the pawn itself
\* is placed on the destination
MovedBoard_PawnPlaced(st, m) ==
  LET p == st.board[m.from.r][m.from.f]
      cr == IF st.turn = "w" THEN m.to.r + 1 ELSE m.to.r - 1
      b1 == IF m.isEnPassant THEN SetCell(st.board, cr, m.to.f, Empty) ELSE st.board
      b2 == IF m.isCastling THEN RelocateRook(b1, m) ELSE b1
      b3 == SetCell(b2, m.to.r, m.to.f, p)
  IN SetCell(b3, m.from.r, m.from.f, Empty)

\* faulty variant of MovedBoard: the pawn taken en passant is left on the board
MovedBoard_VictimKept(st, m) ==
  LET p == st.board[m.from.r][m.from.f]
      b2 == IF m.isCastling THEN RelocateRook(st.board, m) ELSE st.board
      b3 == SetCell(b2, m.to.r, m.to.f,
                    IF m.promotion # "-" THEN Pc(m.promotion, p.c) ELSE p)
  IN SetCell(b3, m.from.r, m.from.f, Empty)

\* the board after the en-passant removal, the castling rook relocation and
\* the placement of the moving piece (chess-prototype engine)
MovedBoard(st, m) ==
  LET p == st.board[m.from.r][m.from.f]
      cr == IF st.turn = "w" THEN m.to.r + 1 ELSE m.to.r - 1
      b1 == IF m.isEnPassant THEN SetCell(st.board, cr, m.to.f, Empty) ELSE st.board
      b2 == IF m.isCastling THEN RelocateRook(b1, m) ELSE b1
      b3 == SetCell(b2, m.to.r, m.to.f,
                    IF m.promotion # "-" THEN Pc(m.promotion, p.c) ELSE p)
  IN SetCell(b3, m.from.r, m.from.f, Empty)

\* the value of `captured`
Captured(st, m) ==
  IF m.isEnPassant
  THEN st.board[IF st.turn = "w" THEN m.to.r + 1 ELSE m.to.r - 1][m.to.f]
  ELSE st.board[m.to.r][m.to.f]

\* faulty variant of NextRights: the flags are recomputed from where kings and rooks
\* stand after the move
NextRights_FromBoard(st, m) ==
  LET board == MovedBoard(st, m)
      home(c, f) == board[IF c = "w" THEN 7 ELSE 0][4] = Pc("k", c)
                    /\ board[IF c = "w" THEN 7 ELSE 0][f] = Pc("r", c)
  IN [whiteCanCastleK |-> home("w", 7),
      whiteCanCastleQ |-> home("w", 0),
      blackCanCastleK |-> home("b", 7),
      blackCanCastleQ |-> home("b", 0)]

\* the four castling-rights flags of the next state
NextRights(st, m) ==
  LET p == st.board[m.from.r][m.from.f]
      captured == Captured(st, m)
      wRookFrom(f) == p.t = "r" /\ p.c = "w" /\ m.from.r = 7 /\ m.from.f = f
      bRookFrom(f) == p.t = "r" /\ p.c = "b" /\ m.from.r = 0 /\ m.from.f = f
      wRookTaken(f) == captured.t = "r" /\ captured.c = "w" /\ m.to.r = 7 /\ m.to.f = f
      bRookTaken(f) == captured.t = "r" /\ captured.c = "b" /\ m.to.r = 0 /\ m.to.f = f
      wKing == p.t = "k" /\ p.c = "w"
      bKing == p.t = "k" /\ p.c # "w"
  IN [whiteCanCastleK |->
        IF wKing \/ wRookFrom(7) \/ wRookTaken(7) THEN FALSE ELSE st.whiteCanCastleK,
      whiteCanCastleQ |->
        IF wKing \/ wRookFrom(0) \/ wRookTaken(0) THEN FALSE ELSE st.whiteCanCastleQ,
      blackCanCastleK |->
        IF bKing \/ bRookFrom(7) \/ bRookTaken(7) THEN FALSE ELSE st.blackCanCastleK,
      blackCanCastleQ |->
        IF bKing \/ bRookFrom(0) \/ bRookTaken(0) THEN FALSE ELSE st.blackCanCastleQ]

\* faulty variant of NextEnPassant: the target is not cleared by other moves
NextEnPassant_NotCleared(st, m) ==
  LET p == st.board[m.from.r][m.from.f]
  IN IF p.t = "p" /\ Abs(m.to.r - m.from.r) = 2
     THEN Sq((m.to.r + m.from.r) \div 2, m.from.f)
     ELSE st.enPassantTarget

\* the value of `ep`
NextEnPassant(st, m) ==
  LET p == st.board[m.from.r][m.from.f]
  IN IF p.t = "p" /\ Abs(m.to.r - m.from.r) = 2
     THEN Sq((m.to.r + m.from.r) \div 2, m.from.f)
     ELSE NoSquare

\* faulty variant of NextHalfmove: only a capture resets the clock
NextHalfmove_CaptureOnly(st, m) ==
  IF Captured(st, m) # Empty THEN 0 ELSE st.halfmoveClock + 1

\* the value of `half`
NextHalfmove(st, m) ==
  LET p == st.board[m.from.r][m.from.f]
      captured == Captured(st, m)
  IN IF p.t = "p" \/ captured # Empty THEN 0 ELSE st.halfmoveClock + 1

\* faulty variant of applyMoveInternal: fullmoveNumber is incremented after
\* white's move instead of black's
applyMoveInternal_FullmoveOnWhite(st, m) ==
  LET rights == NextRights(st, m)
      half == NextHalfmove(st, m)
  IN [st EXCEPT
        !.board = MovedBoard(st, m),
        !.turn = IF st.turn = "w" THEN "b" ELSE "w",
        !.whiteCanCastleK = rights.whiteCanCastleK,
        !.whiteCanCastleQ = rights.whiteCanCastleQ,
        !.blackCanCastleK = rights.blackCanCastleK,
        !.blackCanCastleQ = rights.blackCanCastleQ,
        !.enPassantTarget = NextEnPassant(st, m),
        !.halfmoveClock = half,
        !.fullmoveNumber = IF st.turn = "w" THEN @ + 1 ELSE @,
        !.lastMove = m]

applyMoveInternal(st, m) ==
  LET rights == NextRights(st, m)
      half == NextHalfmove(st, m)
  IN [st EXCEPT
        !.board = MovedBoard(st, m),
        !.turn = IF st.turn = "w" THEN "b" ELSE "w",
        !.whiteCanCastleK = rights.whiteCanCastleK,
        !.whiteCanCastleQ = rights.whiteCanCastleQ,
        !.blackCanCastleK = rights.blackCanCastleK,
        !.blackCanCastleQ = rights.blackCanCastleQ,
        !.enPassantTarget = NextEnPassant(st, m),
        !.halfmoveClock = half,
        !.fullmoveNumber = IF st.turn = "b" THEN @ + 1 ELSE @,
        !.lastMove = m]

(***************************************************************************)
(* SAN generation                                                          *)
(***************************************************************************)
FILES == <<"a", "b", "c", "d", "e", "f", "g", "h">>

\* String.prototype.toUpperCase on a piece letter
toUpperCase(t) ==
  CASE t = "p" -> "P" [] t = "n" -> "N" [] t = "b" -> "B"
    [] t = "r" -> "R" [] t = "q" -> "Q" [] t = "k" -> "K"

needsDisambiguation(st, m) ==
  LET p == st.board[m.from.r][m.from.f]
  IN IF p = Empty \/ p.t = "p" THEN FALSE
     ELSE \E r \in Rows, f \in Rows :
            /\ ~(r = m.from.r /\ f = m.from.f)
            /\ st.board[r][f] # Empty
            /\ st.board[r][f].c = p.c
            /\ st.board[r][f].t = p.t
            /\ LET pseudo == getPseudoLegalMoves(st, Sq(r, f))
               IN \E i \in 1..Len(pseudo) : pseudo[i].to = m.to

\* the text toSAN assembles, given whether the origin file is to be written
\* after the piece letter
SanText(st, m, next, withFile) ==
  IF m.isCastling THEN (IF m.to.f = 6 THEN "O-O" ELSE "O-O-O")
  ELSE LET p == st.board[m.from.r][m.from.f]
           isPawn == p.t = "p"
           isCapture == m.isEnPassant \/ st.board[m.to.r][m.to.f] # Empty
           piece == IF isPawn THEN "" ELSE toUpperCase(p.t)
           disambig == IF ~isPawn /\ withFile THEN FILES[m.from.f + 1] ELSE ""
           pawnFile == IF isPawn /\ isCapture THEN FILES[m.from.f + 1] ELSE ""
           square == FILES[m.to.f + 1] \o ToString(8 - m.to.r)
           promo == IF m.promotion # "-" THEN "=" \o toUpperCase(m.promotion) ELSE ""
           check == IF isInCheck(next, next.turn) THEN "+" ELSE ""
       IN IF p = Empty THEN ""
          ELSE piece \o disambig \o pawnFile \o (IF isCapture THEN "x" ELSE "")
                 \o square \o promo \o check

toSAN(st, m, next) == SanText(st, m, next, needsDisambiguation(st, m))

(***************************************************************************)
(* Move application with history and repetition count                      *)
(***************************************************************************)
\* faulty variant of applyMove: the occurrence count starts again from the
\* counts of createInitialState instead of the counts carried by the state
applyMove_CountsNotCarried(st, m) ==
  LET next == applyMoveInternal(st, m)
      san == toSAN(st, m, next)
      h == computeHash(next)
      c == CountOf(NoCounts, h) + 1
  IN [next EXCEPT
        !.moveHistory = Append(st.moveHistory, san),
        !.positionCounts = WithCount(next.positionCounts, h, c),
        !.threefoldAvailable = c >= 3]

applyMove(st, m) ==
  LET next == applyMoveInternal(st, m)
      san == toSAN(st, m, next)
      h == computeHash(next)
      c == CountOf(next.positionCounts, h) + 1
  IN [next EXCEPT
        !.moveHistory = Append(st.moveHistory, san),
        !.positionCounts = WithCount(next.positionCounts, h, c),
        !.threefoldAvailable = c >= 3]

\* src/engine/engine.js: the rook is relocated only to file 5 or file 3, for
\* a king destination on file 6 or file 2
core_RelocateRook(b, m) ==
  LET kingRow == m.from.r
  IN IF m.to.f = 6
     THEN SetCell(SetCell(b, kingRow, 5, b[kingRow][7]), kingRow, 7, Empty)
     ELSE IF m.to.f = 2
     THEN SetCell(SetCell(b, kingRow, 3, b[kingRow][0]), kingRow, 0, Empty)
     ELSE b

core_MovedBoard(st, m) ==
  LET fromPiece == st.board[m.from.r][m.from.f]
      capturedRow == IF st.turn = "w" THEN m.to.r + 1 ELSE m.to.r - 1
      b1 == IF m.isEnPassant THEN SetCell(st.board, capturedRow, m.to.f, Empty)
            ELSE st.board
      b2 == IF m.isCastling /\ fromPiece.t = "k" THEN core_RelocateRook(b1, m) ELSE b1
      b3 == SetCell(b2, m.to.r, m.to.f,
                    IF m.promotion # "-" THEN Pc(m.promotion, fromPiece.c) ELSE fromPiece)
  IN SetCell(b3, m.from.r, m.from.f, Empty)

\* "if a rook was captured on initial corner squares, clear rights": a rook of
\* either colour stood on the corner before and the corner is null after
core_CornerVacated(st, board, r, f) ==
  /\ st.board[r][f] # Empty
  /\ st.board[r][f].t = "r"
  /\ board[r][f] = Empty

core_NextRights(st, m) ==
  LET fromPiece == st.board[m.from.r][m.from.f]
      board == core_MovedBoard(st, m)
      wKing == fromPiece.t = "k" /\ fromPiece.c = "w"
      bKing == fromPiece.t = "k" /\ fromPiece.c # "w"
      wRookFrom(f) == fromPiece.t = "r" /\ fromPiece.c = "w" /\ m.from.r = 7 /\ m.from.f = f
      bRookFrom(f) == fromPiece.t = "r" /\ fromPiece.c # "w" /\ m.from.r = 0 /\ m.from.f = f
  IN [whiteCanCastleK |->
        IF wKing \/ wRookFrom(7) \/ core_CornerVacated(st, board, 7, 7)
        THEN FALSE ELSE st.whiteCanCastleK,
      whiteCanCastleQ |->
        IF wKing \/ wRookFrom(0) \/ core_CornerVacated(st, board, 7, 0)
        THEN FALSE ELSE st.whiteCanCastleQ,
      blackCanCastleK |->
        IF bKing \/ bRookFrom(7) \/ core_CornerVacated(st, board, 0, 7)
        THEN FALSE ELSE st.blackCanCastleK,
      blackCanCastleQ |->
        IF bKing \/ bRookFrom(0) \/ core_CornerVacated(st, board, 0, 0)
        THEN FALSE ELSE st.blackCanCastleQ]

core_NextEnPassant(st, m) ==
  LET fromPiece == st.board[m.from.r][m.from.f]
  IN IF fromPiece.t = "p" /\ Abs(m.to.r - m.from.r) = 2
     THEN Sq((m.from.r + m.to.r) \div 2, m.from.f)
     ELSE NoSquare

\* a field the state object of src/engine/engine.js does not have
NoZobrist == [table |-> -1, side |-> -1,
              castling |-> [K |-> -1, Q |-> -1, k |-> -1, q |-> -1],
              epFile |-> -1]

\* src/engine/engine.js createInitialState: the nine fields the two state
\* objects share; the fields only the chess-prototype state has are absent
core_createInitialState ==
  [createInitialState EXCEPT
     !.moveHistory = <<>>,
     !.positionCounts = NoCounts,
     !.threefoldAvailable = FALSE,
     !.zobrist = NoZobrist]

\* a position set up on the state object of src/engine/engine.js
core_State(st) ==
  [st EXCEPT
     !.moveHistory = core_createInitialState.moveHistory,
     !.positionCounts = core_createInitialState.positionCounts,
     !.threefoldAvailable = core_createInitialState.threefoldAvailable,
     !.zobrist = core_createInitialState.zobrist]

core_applyMove(st, m) ==
  LET fromPiece == st.board[m.from.r][m.from.f]
      rights == core_NextRights(st, m)
      wasCapture == st.board[m.to.r][m.to.f] # Empty /\ ~m.isEnPassant
      h == IF fromPiece.t = "p" \/ wasCapture THEN 0 ELSE st.halfmoveClock + 1
  IN [board |-> core_MovedBoard(st, m),
      turn |-> IF st.turn = "w" THEN "b" ELSE "w",
      whiteCanCastleK |-> rights.whiteCanCastleK,
      whiteCanCastleQ |-> rights.whiteCanCastleQ,
      blackCanCastleK |-> rights.blackCanCastleK,
      blackCanCastleQ |-> rights.blackCanCastleQ,
      enPassantTarget |-> core_NextEnPassant(st, m),
      halfmoveClock |-> h,
      fullmoveNumber |-> IF st.turn = "b" THEN st.fullmoveNumber + 1
                         ELSE st.fullmoveNumber,
      lastMove |-> NoMove,
      moveHistory |-> <<>>,
      positionCounts |-> NoCounts,
      threefoldAvailable |-> FALSE,
      zobrist |-> NoZobrist]

(***************************************************************************)
(* applyMove called on a from square that may hold no piece                *)
(***************************************************************************)
\* the call returned
NoError == ""

\* throw new Error('No piece at from')
NoPieceError == "Error: No piece at from"

\* reading a property of null (p.t, p.c) raises a TypeError
NullTypeError == "TypeError: Cannot read properties of null"

\* new Map(next.positionCounts): the set(h, c) that follows writes to the copy
copyCounts(counts) == NewArray(counts)

\* what applyMoveInternal leaves in the caller's state object: its writes go
\* to the board cloneBoard returned, and to the new object `next`
applyMoveInternalInput(st, m) ==
  [st EXCEPT !.board = AfterWrites(cloneBoard(@), MovedBoard(st, m))]

\* How a call of applyMove ends and what it leaves in the caller's state
\* object.  The chess-prototype engine has no check of the from square: with
\* p = null it writes to the cloned board only and then fails reading p.c
\* (promotion set) or p.t (castling rights).
applyMoveOutcome(st, m) ==
  IF st.board[m.from.r][m.from.f] = Empty
  THEN [input |-> st, error |-> NullTypeError]
  ELSE [input |-> [applyMoveInternalInput(st, m) EXCEPT
                     !.positionCounts =
                        AfterWrites(copyCounts(@), applyMove(st, m).positionCounts)],
        error |-> NoError]

\* src/engine/engine.js: the from square is checked right after the board is
\* cloned
core_applyMoveOutcome(st, m) ==
  IF st.board[m.from.r][m.from.f] = Empty
  THEN [input |-> st, error |-> NoPieceError]
  ELSE [input |-> [st EXCEPT !.board = AfterWrites(core_cloneBoard(@), core_MovedBoard(st, m))],
        error |-> NoError]

(***************************************************************************)
(* Legal move filter                                                       *)
(***************************************************************************)
\* the castling filter of getLegalMoves: TRUE when the move is kept
CastlingSafe(st, from, p, m) ==
  IF ~m.isCastling THEN TRUE
  ELSE IF isInCheck(st, p.c) THEN FALSE
  ELSE LET stepFile == IF m.to.f > from.f THEN 1 ELSE -1
           pass1 == Sq(from.r, from.f + stepFile)
           pass2 == Sq(from.r, from.f + stepFile * 2)
           opp == Opp(p.c)
       IN IF isSquareAttacked(st, pass1, opp) THEN FALSE
          ELSE IF isSquareAttacked(st, pass2, opp) THEN FALSE
          ELSE TRUE

\* faulty variant of getLegalMoves: the simulation filter is left out
getLegalMoves_NoSimulation(st, from) ==
  LET p == st.board[from.r][from.f]
      keepCastling(m) == CastlingSafe(st, from, p, m)
  IN IF p = Empty THEN <<>>
     ELSE SelectSeq(getPseudoLegalMoves(st, from), keepCastling)

getLegalMoves(st, from) ==
  LET p == st.board[from.r][from.f]
      keepCastling(m) == CastlingSafe(st, from, p, m)
      kingSafe(m) == ~isInCheck(applyMoveInternal(st, m), p.c)
  IN IF p = Empty THEN <<>>
     ELSE SelectSeq(SelectSeq(getPseudoLegalMoves(st, from), keepCastling), kingSafe)

\* the caller's state after applyMoveInternal was called on it for each of
\* the moves in turn
RECURSIVE SimulateAll(_, _)
SimulateAll(st, moves) ==
  IF moves = <<>> THEN st
  ELSE SimulateAll(applyMoveInternalInput(st, Head(moves)), Tail(moves))

\* what a getLegalMoves call returns and what it leaves in the caller's
\* state object
getLegalMovesOutcome(st, from) ==
  LET p == st.board[from.r][from.f]
      keepCastling(m) == CastlingSafe(st, from, p, m)
  IN [input |-> IF p = Empty THEN st
                ELSE SimulateAll(st, SelectSeq(getPseudoLegalMoves(st, from), keepCastling)),
      result |-> getLegalMoves(st, from)]

core_CastlingSafe(st, from, p, m) ==
  IF ~m.isCastling THEN TRUE
  ELSE IF core_isInCheck(st, p.c) THEN FALSE
  ELSE LET stepFile == IF m.to.f > from.f THEN 1 ELSE -1
           pass1 == Sq(from.r, from.f + stepFile)
           pass2 == Sq(from.r, from.f + stepFile * 2)
           opp == Opp(p.c)
       IN IF core_isSquareAttacked(st, pass1, opp) THEN FALSE
          ELSE IF core_isSquareAttacked(st, pass2, opp) THEN FALSE
          ELSE TRUE

core_getLegalMoves(st, from) ==
  LET p == st.board[from.r][from.f]
      keepCastling(m) == core_CastlingSafe(st, from, p, m)
      kingSafe(m) == ~core_isInCheck(core_applyMove(st, m), p.c)
  IN IF p = Empty THEN <<>>
     ELSE SelectSeq(SelectSeq(core_getPseudoLegalMoves(st, from), keepCastling), kingSafe)

RECURSIVE core_SimulateAll(_, _)
core_SimulateAll(st, moves) ==
  IF moves = <<>> THEN st
  ELSE core_SimulateAll(core_applyMoveOutcome(st, Head(moves)).input, Tail(moves))

core_getLegalMovesOutcome(st, from) ==
  LET p == st.board[from.r][from.f]
      keepCastling(m) == core_CastlingSafe(st, from, p, m)
  IN [input |-> IF p = Empty THEN st
                ELSE core_SimulateAll(st, SelectSeq(core_getPseudoLegalMoves(st, from),
                                                    keepCastling)),
      result |-> core_getLegalMoves(st, from)]

(***************************************************************************)
(* Game status (chess-prototype engine only)                               *)
(***************************************************************************)
\* the legal moves of every piece of the colour, squares scanned row by row
getAllLegalMoves(st, color) ==
  ConcatAll([i \in 1..64 |->
    LET r == (i - 1) \div 8
        f == (i - 1) % 8
        p == st.board[r][f]
    IN IF p # Empty /\ p.c = color THEN getLegalMoves(st, Sq(r, f)) ELSE <<>>])

isCheckmate(st, color) ==
  IF ~isInCheck(st, color) THEN FALSE
  ELSE Len(getAllLegalMoves(st, color)) = 0

isStalemate(st, color) ==
  IF isInCheck(st, color) THEN FALSE
  ELSE Len(getAllLegalMoves(st, color)) = 0

\* the object { status, winner } ; winner "-" is null
Status(s, w) == [status |-> s, winner |-> w]

\* no getGameStatus call has been made
NoStatus == Status("", "-")

getGameStatus(st) ==
  LET color == st.turn
  IN IF isCheckmate(st, color)
     THEN Status("checkmate", IF color = "w" THEN "b" ELSE "w")
     ELSE IF isStalemate(st, color) THEN Status("stalemate", "-")
     ELSE IF st.halfmoveClock >= 100 THEN Status("draw_50_moves", "-")
     ELSE IF isInCheck(st, color) THEN Status("check", "-")
     ELSE Status("ongoing", "-")

(***************************************************************************)
(* Positions a game is explored from.  Each is a position of a real game   *)
(* (one king a side, the side not to move not in check, castling flags     *)
(* true only with king and rook at home, no en-passant target pending),    *)
(* given as <<row, file, type, colour>> placements.                        *)
(***************************************************************************)
BoardOf(pl) ==
  [r \in Rows |-> [f \in Rows |->
     IF \E i \in 1..Len(pl) : pl[i][1] = r /\ pl[i][2] = f
     THEN LET i == CHOOSE j \in 1..Len(pl) : pl[j][1] = r /\ pl[j][2] = f
          IN Pc(pl[i][3], pl[i][4])
     ELSE Empty]]

Position(pl, turn, wK, wQ, bK, bQ) ==
  [createInitialState EXCEPT
     !.board = BoardOf(pl),
     !.turn = turn,
     !.whiteCanCastleK = wK,
     !.whiteCanCastleQ = wQ,
     !.blackCanCastleK = bK,
     !.blackCanCastleQ = bQ,
     !.halfmoveClock = 4,
     !.fullmoveNumber = 20]

\* both kings and all four rooks at home, a white bishop on c3 and a black
\* bishop on c8, on the same file
CastlePosition ==
  Position(<< <<7, 4, "k", "w">>, <<7, 0, "r", "w">>, <<7, 7, "r", "w">>,
              <<6, 0, "p", "w">>, <<6, 7, "p", "w">>, <<5, 2, "b", "w">>,
              <<0, 4, "k", "b">>, <<0, 0, "r", "b">>, <<0, 7, "r", "b">>,
              <<1, 0, "p", "b">>, <<1, 7, "p", "b">>, <<0, 2, "b", "b">> >>,
           "b", TRUE, TRUE, TRUE, TRUE)

\* white rook on h7 facing the black rook at home on h8, black knight on g8
\* and pawn on g7, white pawn on h6 behind the rook
CornerPosition ==
  Position(<< <<7, 4, "k", "w">>, <<1, 7, "r", "w">>, <<2, 7, "p", "w">>,
              <<0, 4, "k", "b">>, <<0, 7, "r", "b">>, <<0, 6, "n", "b">>,
              <<1, 6, "p", "b">> >>,
           "w", FALSE, FALSE, TRUE, FALSE)

\* white pawns on c5 and e5, black pawn on d7, black bishop on e8 behind the
\* e-pawn, white king on e1; the white rook has moved and come back to a1
EnPassantPosition ==
  Position(<< <<7, 4, "k", "w">>, <<3, 4, "p", "w">>, <<3, 2, "p", "w">>,
              <<7, 0, "r", "w">>, <<6, 0, "p", "w">>,
              <<0, 6, "k", "b">>, <<0, 4, "b", "b">>, <<1, 3, "p", "b">> >>,
           "b", FALSE, FALSE, FALSE, FALSE)

\* white pawn on a7 next to a black rook on b8, black pawn on g2
PromotionPosition ==
  Position(<< <<7, 4, "k", "w">>, <<1, 0, "p", "w">>,
              <<0, 7, "k", "b">>, <<0, 1, "r", "b">>, <<6, 6, "p", "b">> >>,
           "w", FALSE, FALSE, FALSE, FALSE)

\* white rook on e5 between the white king on e3 and the black rook on e8; a
\* black bishop on a5, from where it reaches e1, and the black king on g8
PinPosition ==
  Position(<< <<5, 4, "k", "w">>, <<3, 4, "r", "w">>,
              <<0, 4, "r", "b">>, <<3, 0, "b", "b">>, <<0, 6, "k", "b">> >>,
           "b", FALSE, FALSE, FALSE, FALSE)

\* white king e1, white knights b1, f3 and e2, the last one pinned by the
\* black rook on e8; black king h8.  The knights on b1 and f3 both reach d2;
\* c3 is reached by the knight on b1 and, but for the pin, by the one on e2
SanPosition ==
  Position(<< <<7, 4, "k", "w">>, <<7, 1, "n", "w">>, <<5, 5, "n", "w">>,
              <<6, 4, "n", "w">>, <<0, 4, "r", "b">>, <<0, 7, "k", "b">> >>,
           "w", FALSE, FALSE, FALSE, FALSE)

\* the white king alone on h1; black king g3, knight f3, bishops d5 and f8,
\* rook a8.  Black mates with the rook, stalemates with a waiting move, gives
\* check by moving the knight off the bishop's diagonal
StatusPosition ==
  Position(<< <<7, 7, "k", "w">>,
              <<5, 6, "k", "b">>, <<5, 5, "n", "b">>, <<3, 3, "b", "b">>,
              <<0, 5, "b", "b">>, <<0, 0, "r", "b">> >>,
           "b", FALSE, FALSE, FALSE, FALSE)

\* the same position 99 half-moves after the last capture or pawn move
LateStatusPosition == [StatusPosition EXCEPT !.halfmoveClock = 99]

StatusPositions == {StatusPosition, LateStatusPosition}

Positions == {CastlePosition, EnPassantPosition, PromotionPosition, PinPosition}

Engines == {"proto", "core"}

(***************************************************************************)
(* The game                                                                *)
(***************************************************************************)
\* what decides whether two positions are the same position: placement, side
\* to move, the four castling flags, the en-passant file
Signature(st) ==
  [board |-> st.board,
   turn |-> st.turn,
   castling |-> <<st.whiteCanCastleK, st.whiteCanCastleQ,
                  st.blackCanCastleK, st.blackCanCastleQ>>,
   epFile |-> st.enPassantTarget.f]

\* useState(null) for selected and promoChoice, an empty legalSet and
\* legalMoves
NoPromoChoice == [from |-> NoSquare, to |-> NoSquare, options |-> <<>>]

NoSelection ==
  [selected |-> NoSquare, legalSet |-> {}, legalMoves |-> <<>>,
   promoChoice |-> NoPromoChoice]

\* the start position as the loaded engine's state object holds it
StartOf(eng, st) == IF eng = "core" THEN core_State(st) ELSE st

Init ==
  /\ engine \in Engines
  /\ \/ state = StartOf(engine, createInitialState) /\ limit = MaxOpeningPly
     \/ (\E st \in Positions : state = StartOf(engine, st)) /\ limit = MaxPly
     \/ state = StartOf(engine, CornerPosition) /\ limit = MaxLinePly
     \/ state \in StatusPositions \cup {SanPosition} /\ engine = "proto" /\ limit = MaxPly
  /\ prev = state
  /\ origin = state
  /\ status = NoStatus
  /\ thrown = NoError
  /\ move = NoMove
  /\ ply = 0
  /\ reached = <<Signature(state)>>
  /\ seed = ZobristCalls
  /\ ui = NoSelection

OwnSquares(st) ==
  {sq \in [r : Rows, f : Rows] :
     st.board[sq.r][sq.f] # Empty /\ st.board[sq.r][sq.f].c = st.turn}

Elems(seq) == {seq[i] : i \in 1..Len(seq)}

\* the chess-prototype App: select a piece of the side to move, pick one of
\* its legal moves, applyMove, getGameStatus of the new state
Move ==
  /\ engine = "proto"
  /\ ply < limit
  /\ \E from \in OwnSquares(state) :
       \E m \in Elems(getLegalMoves(state, from)) :
         /\ state' = applyMove(state, m)
         /\ move' = m
  /\ status' = getGameStatus(state')
  /\ thrown' = applyMoveOutcome(state, move').error
  /\ prev' = state
  /\ ply' = ply + 1
  /\ reached' = Append(reached, Signature(state'))
  /\ UNCHANGED <<engine, limit, origin, seed, ui>>

\* the same game played on src/engine/engine.js
CoreMove ==
  /\ engine = "core"
  /\ ply < limit
  /\ \E from \in OwnSquares(state) :
       \E m \in Elems(core_getLegalMoves(state, from)) :
         /\ state' = core_applyMove(state, m)
         /\ move' = m
  /\ thrown' = core_applyMoveOutcome(state, move').error
  /\ prev' = state
  /\ ply' = ply + 1
  /\ reached' = Append(reached, Signature(state'))
  /\ UNCHANGED <<engine, limit, origin, status, seed, ui>>

Next == Move \/ CoreMove

Spec == Init /\ [][Next]_vars

\* the squares the pieces of a shuffling game move between: g1, f3, h1, e2,
\* e4 and g8, f6, h8
ShuffleSquares ==
  {Sq(7, 6), Sq(5, 5), Sq(7, 7), Sq(6, 4), Sq(4, 4), Sq(0, 6), Sq(2, 5), Sq(0, 7)}

InitRepetition ==
  /\ engine = "proto"
  /\ state = createInitialState
  /\ limit = MaxShufflePly
  /\ prev = state
  /\ origin = state
  /\ status = NoStatus
  /\ thrown = NoError
  /\ move = NoMove
  /\ ply = 0
  /\ reached = <<Signature(state)>>
  /\ seed = ZobristCalls
  /\ ui = NoSelection

\* the App's game in which both players move knights and rooks back and
\* forth (and white may push the e-pawn two squares)
ShuffleMove ==
  /\ ply < limit
  /\ \E from \in OwnSquares(state) \cap ShuffleSquares :
       \E m \in Elems(getLegalMoves(state, from)) :
         /\ m.to \in ShuffleSquares
         /\ state' = applyMove(state, m)
         /\ move' = m
  /\ status' = getGameStatus(state')
  /\ thrown' = applyMoveOutcome(state, move').error
  /\ prev' = state
  /\ ply' = ply + 1
  /\ reached' = Append(reached, Signature(state'))
  /\ UNCHANGED <<engine, limit, origin, seed, ui>>

SpecRepetition == InitRepetition /\ [][ShuffleMove]_vars

(***************************************************************************)
(* The App component: square clicks, promotion choice, Claim draw, Reset   *)
(***************************************************************************)
\* the squares clicked in a game restored on PromotionPosition: a7, a8, b8,
\* g2, g1
PromotionSquares == {Sq(1, 0), Sq(0, 0), Sq(0, 1), Sq(6, 6), Sq(7, 6)}

\* the squares clicked in a game started on createInitialState: g1, f3, g8,
\* f6 and the e-pawn's e2, e4
OpeningSquares == {Sq(7, 6), Sq(5, 5), Sq(0, 6), Sq(2, 5), Sq(6, 4), Sq(4, 4)}

ClickSquares == IF origin = createInitialState THEN OpeningSquares ELSE PromotionSquares

\* reading move.from of undefined raises a TypeError
UndefinedTypeError == "TypeError: Cannot read properties of undefined"

\* selectPiece(r, f)
selectPiece(st, u, sq) ==
  LET legal == getLegalMoves(st, sq)
  IN [u EXCEPT !.legalMoves = legal,
               !.legalSet = {legal[i].to : i \in 1..Len(legal)},
               !.selected = sq]

\* clearSelection()
clearSelection(u) ==
  [u EXCEPT !.selected = NoSquare, !.legalMoves = <<>>, !.legalSet = {}]

InitUI ==
  /\ engine = "proto"
  /\ \/ state = createInitialState /\ limit = MaxUIPly
     \/ state = PromotionPosition /\ limit = MaxPly
  /\ prev = state
  /\ origin = state
  /\ status = NoStatus
  /\ thrown = NoError
  /\ move = NoMove
  /\ ply = 0
  /\ reached = <<Signature(state)>>
  /\ seed = ZobristCalls
  /\ ui = NoSelection

\* performMove(m): applyMove on the current state, setState, clearSelection,
\* setPromoChoice(null), getGameStatus
performMove(m) ==
  /\ state' = applyMove(state, m)
  /\ move' = m
  /\ prev' = state
  /\ thrown' = applyMoveOutcome(state, m).error
  /\ status' = getGameStatus(state')
  /\ ply' = ply + 1
  /\ reached' = Append(reached, Signature(state'))
  /\ ui' = [clearSelection(ui) EXCEPT !.promoChoice = NoPromoChoice]
  /\ UNCHANGED <<engine, limit, origin, seed>>

\* onSelectSquare(r, f)
SelectSquare ==
  \E sq \in ClickSquares :
    LET piece == state.board[sq.r][sq.f]
        toHere(m) == m.to = sq
        candidates == SelectSeq(ui.legalMoves, toHere)
        isPromo(m) == m.promotion # "-"
        promos == SelectSeq(candidates, isPromo)
    IN IF ui.selected = NoSquare
       THEN /\ piece # Empty /\ piece.c = state.turn
            /\ ui' = selectPiece(state, ui, sq)
            /\ UNCHANGED <<state, prev, move, engine, ply, limit, origin, status,
                           thrown, reached, seed>>
       ELSE IF ui.selected = sq \/ sq \notin ui.legalSet
       THEN /\ ui' = clearSelection(ui)
            /\ UNCHANGED <<state, prev, move, engine, ply, limit, origin, status,
                           thrown, reached, seed>>
       ELSE IF promos # <<>>
       THEN /\ ui' = [ui EXCEPT !.promoChoice =
                        [from |-> ui.selected, to |-> sq,
                         options |-> [i \in 1..Len(promos) |-> promos[i].promotion]]]
            /\ UNCHANGED <<state, prev, move, engine, ply, limit, origin, status,
                           thrown, reached, seed>>
       ELSE /\ ply < limit
            /\ performMove(candidates[1])

\* choosePromotion(promo), from a button of the promotion chooser
ChoosePromotion ==
  /\ ui.promoChoice # NoPromoChoice
  /\ \E k \in 1..Len(ui.promoChoice.options) :
       LET promo == ui.promoChoice.options[k]
           wanted(m) == m.promotion = promo /\ m.to = ui.promoChoice.to
           found == SelectSeq(ui.legalMoves, wanted)
       IN IF found = <<>>
          THEN /\ thrown' = UndefinedTypeError
               /\ UNCHANGED <<state, prev, move, engine, ply, limit, origin, status,
                              reached, seed, ui>>
          ELSE /\ ply < limit
               /\ performMove(found[1])

\* claimDraw(), from the button shown while state.threefoldAvailable
ClaimDraw ==
  /\ state.threefoldAvailable
  /\ seed < MaxGames * ZobristCalls
  /\ state' = createInitialStateAfter(seed)
  /\ seed' = seed + ZobristCalls
  /\ reached' = <<Signature(state')>>
  /\ UNCHANGED <<prev, move, engine, ply, limit, origin, status, thrown, ui>>

\* resetGame()
ResetGame ==
  /\ seed < MaxGames * ZobristCalls
  /\ state' = createInitialStateAfter(seed)
  /\ seed' = seed + ZobristCalls
  /\ reached' = <<Signature(state')>>
  /\ ui' = NoSelection
  /\ UNCHANGED <<prev, move, engine, ply, limit, origin, status, thrown>>

NextUI == SelectSquare \/ ChoosePromotion \/ ClaimDraw \/ ResetGame

SpecUI == InitUI /\ [][NextUI]_vars

\* squares and promotion tags a caller passes in a hand-made move
ProbeSquares == {Sq(4, 1), Sq(2, 2)}

ProbeTags == {"-", "q"}

\* A caller that builds the move itself calls applyMove with a from square
\* that holds no piece and catches what the call raises; it keeps its state
\* object.
EmptyFromCall ==
  /\ \E from \in ProbeSquares, to \in ProbeSquares, tag \in ProbeTags :
       /\ state.board[from.r][from.f] = Empty
       /\ LET m == [Mv(from, to) EXCEPT !.promotion = tag]
              out == IF engine = "proto" THEN applyMoveOutcome(state, m)
                     ELSE core_applyMoveOutcome(state, m)
          IN /\ out.error # NoError
             /\ state' = out.input
             /\ thrown' = out.error
  /\ UNCHANGED <<prev, move, engine, ply, limit, origin, status, reached, seed, ui>>

NextWithCalls == Move \/ CoreMove \/ EmptyFromCall

SpecWithCalls == Init /\ [][NextWithCalls]_vars

(***************************************************************************)
(* What the properties are stated with                                     *)
(***************************************************************************)
Squares == [r : Rows, f : Rows]

At(board, sq) == board[sq.r][sq.f]

\* the functions of the engine the game is played on
EngAttacked(st, sq, c) ==
  IF engine = "proto" THEN isSquareAttacked(st, sq, c) ELSE core_isSquareAttacked(st, sq, c)

EngInCheck(st, c) ==
  IF engine = "proto" THEN isInCheck(st, c) ELSE core_isInCheck(st, c)

EngPseudo(st, from) ==
  IF engine = "proto" THEN getPseudoLegalMoves(st, from) ELSE core_getPseudoLegalMoves(st, from)

EngLegal(st, from) ==
  IF engine = "proto" THEN getLegalMoves(st, from) ELSE core_getLegalMoves(st, from)

EngApply(st, m) ==
  IF engine = "proto" THEN applyMoveInternal(st, m) ELSE core_applyMove(st, m)

Sign(x) == IF x < 0 THEN -1 ELSE IF x > 0 THEN 1 ELSE 0

Max(a, b) == IF a > b THEN a ELSE b

\* The rules of chess (spec 4.2): the piece on x attacks sq.  A pawn attacks
\* the two squares diagonally ahead, a knight and a king their offset squares,
\* a bishop along a diagonal, a rook along a rank or file, a queen along both,
\* with every square strictly between empty.
Attacks(board, x, sq) ==
  LET p == At(board, x)
      dr == sq.r - x.r
      df == sq.f - x.f
      n == Max(Abs(dr), Abs(df))
      clear == \A k \in 1..(n - 1) :
                 board[x.r + k * Sign(dr)][x.f + k * Sign(df)] = Empty
      diag == Abs(dr) = Abs(df) /\ dr # 0
      orth == (dr = 0) # (df = 0)
  IN CASE p.t = "p" -> dr = (IF p.c = "w" THEN -1 ELSE 1) /\ Abs(df) = 1
       [] p.t = "n" -> {Abs(dr), Abs(df)} = {1, 2}
       [] p.t = "k" -> n = 1
       [] p.t = "b" -> diag /\ clear
       [] p.t = "r" -> orth /\ clear
       [] p.t = "q" -> (diag \/ orth) /\ clear
       [] OTHER -> FALSE

Attacked(board, sq, c) ==
  \E x \in Squares : At(board, x).c = c /\ Attacks(board, x, sq)

\* the king of colour c stands on a square the other colour attacks
KingAttacked(board, c) ==
  \E k \in Squares : At(board, k) = Pc("k", c) /\ Attacked(board, k, Opp(c))

Applied == move # NoMove

\* the piece the last applyMove call moved
Mover == At(prev.board, move.from)

(***************************************************************************)
(* C1  Attack detector, sliding pieces                                     *)
(***************************************************************************)
\* the piece on x is a bishop, rook or queen that attacks sq by the rules: it
\* stands on a diagonal (bishop, queen) or on the rank or file (rook, queen)
\* of sq and every square between them is empty, so it is the first occupied
\* square of that ray walked outward from sq
SliderFits(board, x, sq) == At(board, x).t \in {"b", "r", "q"} /\ Attacks(board, x, sq)

NonSliderAttacks(board, x, sq) == At(board, x).t \in {"p", "n", "k"} /\ Attacks(board, x, sq)

\* C1: whenever isSquareAttacked(state, sq, c) is true, a pawn, knight or king
\* of colour c attacks sq, or a sliding piece of colour c is the first occupied
\* square of a ray from sq that fits its geometry; a bishop on the file or rank
\* of sq, or a rook on a diagonal of sq, never makes the result true by itself.
C1_SlidingGeometry ==
  \A sq \in Squares, c \in Colors :
    EngAttacked(state, sq, c) =>
      \E x \in Squares :
        /\ At(state.board, x).c = c
        /\ SliderFits(state.board, x, sq) \/ NonSliderAttacks(state.board, x, sq)

(***************************************************************************)
(* C2  Self-check exclusion                                                *)
(***************************************************************************)
\* C2: for every square holding a piece, no move returned by getLegalMoves
\* leaves the king of the moved piece's colour in check (isInCheck of the
\* state applyMove returns is false), nor attacked by the rules of chess.
C2_SelfCheckExclusion ==
  \A sq \in Squares :
    At(state.board, sq) # Empty =>
      \A m \in Elems(EngLegal(state, sq)) :
        LET ns == EngApply(state, m)
        IN /\ ~EngInCheck(ns, At(state.board, sq).c)
           /\ ~KingAttacked(ns.board, At(state.board, sq).c)

\* C2 witness: a move has been applied, and in the state reached a piece has
\* a pseudo-legal move that the filter removed and a legal move that it kept
C2_Witness ==
  /\ Applied
  /\ \E sq \in Squares :
       /\ At(state.board, sq) # Empty
       /\ Len(EngLegal(state, sq)) > 0
       /\ \E m \in Elems(EngPseudo(state, sq)) :
            /\ ~m.isCastling
            /\ m \notin Elems(EngLegal(state, sq))

(***************************************************************************)
(* Castling: vocabulary                                                    *)
(***************************************************************************)
Sides == {"K", "Q"}

HomeRow(c) == IF c = "w" THEN 7 ELSE 0

KingHome(c) == Sq(HomeRow(c), 4)

Corner(c, side) == Sq(HomeRow(c), IF side = "K" THEN 7 ELSE 0)

\* the square the king lands on: two files toward the rook
CastleTo(c, side) == Sq(HomeRow(c), IF side = "K" THEN 6 ELSE 2)

\* the square the king passes over: one file toward the rook
CastlePass(c, side) == Sq(HomeRow(c), IF side = "K" THEN 5 ELSE 3)

\* the squares strictly between king and corner
BetweenFiles(side) == IF side = "K" THEN {5, 6} ELSE {1, 2, 3}

Right(st, c, side) ==
  IF c = "w" THEN (IF side = "K" THEN st.whiteCanCastleK ELSE st.whiteCanCastleQ)
  ELSE (IF side = "K" THEN st.blackCanCastleK ELSE st.blackCanCastleQ)

Rights(st) ==
  <<st.whiteCanCastleK, st.whiteCanCastleQ, st.blackCanCastleK, st.blackCanCastleQ>>

CastleMove(c, side) == CastleMv(KingHome(c), CastleTo(c, side))

(***************************************************************************)
(* C3  Castling safety                                                     *)
(***************************************************************************)
\* C3: a castling candidate of getPseudoLegalMoves is in the list of
\* getLegalMoves if and only if the king is not in check, and neither the
\* square it passes over nor the square it lands on is attacked by the
\* opponent, in the current state (attacks as the rules of chess define them).
C3_CastlingSafety ==
  \A c \in Colors, side \in Sides :
    CastleMove(c, side) \in Elems(EngPseudo(state, KingHome(c))) =>
      ( CastleMove(c, side) \in Elems(EngLegal(state, KingHome(c)))
        <=> /\ ~KingAttacked(state.board, c)
            /\ ~Attacked(state.board, CastlePass(c, side), Opp(c))
            /\ ~Attacked(state.board, CastleTo(c, side), Opp(c)) )

\* the same equivalence with "attacked" read as the engine's own detector
CastlingSafetyByDetector ==
  \A c \in Colors, side \in Sides :
    CastleMove(c, side) \in Elems(EngPseudo(state, KingHome(c))) =>
      ( CastleMove(c, side) \in Elems(EngLegal(state, KingHome(c)))
        <=> /\ ~EngInCheck(state, c)
            /\ ~EngAttacked(state, CastlePass(c, side), Opp(c))
            /\ ~EngAttacked(state, CastleTo(c, side), Opp(c)) )

(***************************************************************************)
(* C4  Castling candidates                                                 *)
(***************************************************************************)
CandidateConditions(st, c, side) ==
  /\ Right(st, c, side)
  /\ \A f \in BetweenFiles(side) : st.board[HomeRow(c)][f] = Empty
  /\ At(st.board, Corner(c, side)) = Pc("r", c)

\* C4: for a king on its home square, getPseudoLegalMoves emits the castling
\* move toward a side if and only if that side's flag is true, the squares
\* between king and corner are empty and the corner holds a rook of the king's
\* colour; it emits no other move tagged isCastling, and getLegalMoves returns
\* a castling move only under the same conditions.
C4_CastlingCandidates ==
  \A c \in Colors :
    At(state.board, KingHome(c)) = Pc("k", c) =>
      /\ \A side \in Sides :
           /\ CastleMove(c, side) \in Elems(EngPseudo(state, KingHome(c)))
                <=> CandidateConditions(state, c, side)
           /\ CastleMove(c, side) \in Elems(EngLegal(state, KingHome(c)))
                => CandidateConditions(state, c, side)
      /\ \A m \in Elems(EngPseudo(state, KingHome(c))) \cup Elems(EngLegal(state, KingHome(c))) :
           m.isCastling => \E side \in Sides : m = CastleMove(c, side)

\* C4 witness: after a move, a king at home has the king-side candidate, and
\* no queen-side candidate although its queen-side flag is true
C4_Witness ==
  /\ Applied
  /\ \E c \in Colors :
       /\ At(state.board, KingHome(c)) = Pc("k", c)
       /\ CastleMove(c, "K") \in Elems(EngPseudo(state, KingHome(c)))
       /\ Right(state, c, "Q")
       /\ CastleMove(c, "Q") \notin Elems(EngPseudo(state, KingHome(c)))

(***************************************************************************)
(* C5  Applying a castling move                                            *)
(***************************************************************************)
\* C5: after applyMove of a castling move of the king from the e-file, the
\* king stands two files toward the rook, the rook on the square the king
\* passed over, the king's origin and the rook's corner are empty, and both
\* castling flags of the mover's colour are false.
C5_CastlingApplied ==
  (Applied /\ move.isCastling /\ Mover.t = "k" /\ move.from.f = 4 /\ move.to.f \in {2, 6}) =>
    LET c == Mover.c
        r == move.from.r
        side == IF move.to.f = 6 THEN "K" ELSE "Q"
    IN /\ move.to.r = r
       /\ At(state.board, move.to) = Pc("k", c)
       /\ state.board[r][IF side = "K" THEN 5 ELSE 3] = Pc("r", c)
       /\ state.board[r][4] = Empty
       /\ state.board[r][IF side = "K" THEN 7 ELSE 0] = Empty
       /\ ~Right(state, c, "K")
       /\ ~Right(state, c, "Q")

\* C5 witness: a queen-side castling move has been applied
C5_Witness == Applied /\ move.isCastling /\ Mover.t = "k" /\ move.to.f = 2

(***************************************************************************)
(* C6  Castling rights when a corner rook is captured                      *)
(***************************************************************************)
\* the last move captured a rook of colour c standing on its home corner
HomeRookCaptured(c, side) ==
  /\ Applied
  /\ ~move.isEnPassant
  /\ move.to = Corner(c, side)
  /\ At(prev.board, move.to) = Pc("r", c)

\* C6: when applyMove applies a move that captures a rook standing on its
\* original corner, the castling flag of the rook's colour for that corner is
\* false in the resulting state.
C6_CapturedRookClearsRight ==
  \A c \in Colors, side \in Sides :
    HomeRookCaptured(c, side) => ~Right(state, c, side)

(***************************************************************************)
(* C7  Castling rights on king and rook moves                              *)
(***************************************************************************)
HomeRookMoved(c, side) ==
  Applied /\ Mover = Pc("r", c) /\ move.from = Corner(c, side)

\* the last move captured a rook standing on one of the four corners
CornerRookCaptured ==
  /\ Applied
  /\ ~move.isEnPassant
  /\ move.to.r \in {0, 7} /\ move.to.f \in {0, 7}
  /\ At(prev.board, move.to).t = "r"

\* C7: a king move makes both flags of its colour false; a rook move away
\* from its own home corner makes the flag of that corner false and, unless it
\* also captures a corner rook, leaves the three other flags as they were; a
\* move that moves no king, moves no rook off its home corner and captures no
\* corner rook leaves all four flags unchanged.
C7_RightsOnKingAndRookMoves ==
  Applied =>
    /\ Mover.t = "k" => (~Right(state, Mover.c, "K") /\ ~Right(state, Mover.c, "Q"))
    /\ \A c \in Colors, side \in Sides :
         HomeRookMoved(c, side) =>
           /\ ~Right(state, c, side)
           /\ ~CornerRookCaptured =>
                \A c2 \in Colors, s2 \in Sides :
                  <<c2, s2>> # <<c, side>> => Right(state, c2, s2) = Right(prev, c2, s2)
    /\ ( /\ Mover.t # "k"
         /\ \A c \in Colors, side \in Sides : ~HomeRookMoved(c, side)
         /\ ~CornerRookCaptured )
       => Rights(state) = Rights(prev)

(***************************************************************************)
(* C8  Castling rights are monotone                                        *)
(***************************************************************************)
\* C8: in every step each of the four castling flags either keeps its value
\* or goes from true to false; a flag that is false stays false.
C8_RightsMonotone ==
  [][ \A c \in Colors, side \in Sides : Right(state', c, side) => Right(state, c, side) ]_vars

\* C8 witness: a move has turned a flag from true to false
C8_Witness ==
  /\ Applied
  /\ \E c \in Colors, side \in Sides : Right(prev, c, side) /\ ~Right(state, c, side)

(***************************************************************************)
(* C9  En-passant target lifecycle                                         *)
(***************************************************************************)
DoubleStep == Applied /\ Mover.t = "p" /\ Abs(move.to.r - move.from.r) = 2

\* C9: after applyMove the target is non-null exactly when the moved piece is
\* a pawn whose row changed by two, and then it is the square of the pawn's
\* file midway between the origin and destination rows; every other move,
\* an en-passant capture included, leaves it null.
C9_EnPassantLifecycle ==
  Applied =>
    /\ state.enPassantTarget # NoSquare <=> DoubleStep
    /\ DoubleStep =>
         /\ state.enPassantTarget.f = move.from.f
         /\ state.enPassantTarget.r - move.from.r = move.to.r - state.enPassantTarget.r
    /\ move.isEnPassant => state.enPassantTarget = NoSquare

\* C9 witness: a target set by a double step was used by an en-passant
\* capture, after which the target is null
C9_Witness ==
  /\ Applied
  /\ prev.enPassantTarget # NoSquare
  /\ move.isEnPassant
  /\ state.enPassantTarget = NoSquare

(***************************************************************************)
(* C10  En-passant availability                                            *)
(***************************************************************************)
\* the board after the pawn on sq captures en passant the pawn on victim,
\* landing on target, by the rules of chess
EnPassantBoard(board, sq, victim, target) ==
  [r \in Rows |-> [f \in Rows |->
     IF Sq(r, f) = target THEN At(board, sq)
     ELSE IF Sq(r, f) = sq \/ Sq(r, f) = victim THEN Empty
     ELSE board[r][f]]]

\* C10: right after an enemy pawn's double step that lands beside a pawn of
\* the side to move, getLegalMoves for that pawn contains the en-passant move
\* to enPassantTarget, provided the capture does not leave the mover's king
\* attacked; and in a state whose enPassantTarget is null no list of
\* getLegalMoves contains a move tagged isEnPassant.
C10_EnPassantAvailability ==
  /\ DoubleStep =>
       \A df \in {-1, 1} :
         LET sq == Sq(move.to.r, move.to.f + df)
             epm == [Mv(sq, state.enPassantTarget) EXCEPT !.isEnPassant = TRUE]
         IN ( /\ inside(sq.r, sq.f)
              /\ At(state.board, sq) = Pc("p", state.turn)
              /\ ~KingAttacked(EnPassantBoard(state.board, sq, move.to,
                                              state.enPassantTarget), state.turn) )
            => epm \in Elems(EngLegal(state, sq))
  /\ state.enPassantTarget = NoSquare =>
       \A sq \in Squares : \A m \in Elems(EngLegal(state, sq)) : ~m.isEnPassant

(***************************************************************************)
(* C11  En-passant capture effect                                          *)
(***************************************************************************)
\* the square one row behind the destination of the last move, seen from the
\* side that made it
BehindDestination ==
  Sq(IF prev.turn = "w" THEN move.to.r + 1 ELSE move.to.r - 1, move.to.f)

\* C11: after applyMove of a move tagged isEnPassant by the side to move, the
\* capturing pawn stands on the destination, which was the en-passant target,
\* its origin is empty, the square one row behind the destination (row + 1 for
\* white, row - 1 for black), which held the enemy pawn, is empty, and every
\* other square is as before.
C11_EnPassantCapture ==
  (Applied /\ move.isEnPassant) =>
    /\ Mover = Pc("p", prev.turn)
    /\ move.to = prev.enPassantTarget
    /\ At(prev.board, BehindDestination) = Pc("p", Opp(prev.turn))
    /\ \A sq \in Squares :
         At(state.board, sq) =
           IF sq = move.to THEN Mover
           ELSE IF sq = move.from \/ sq = BehindDestination THEN Empty
           ELSE At(prev.board, sq)

\* C11 witness: an en-passant capture has been applied and the square behind
\* the destination, which held a pawn, is now empty
C11_Witness ==
  /\ Applied
  /\ move.isEnPassant
  /\ At(prev.board, BehindDestination).t = "p"
  /\ At(state.board, BehindDestination) = Empty

(***************************************************************************)
(* C12  Promotion completeness                                             *)
(***************************************************************************)
PromotionTypes == {"q", "r", "b", "n"}

FarRow(c) == IF c = "w" THEN 0 ELSE 7

\* number of entries of the list equal to m
Count(list, m) == Cardinality({i \in 1..Len(list) : list[i] = m})

\* every move of the list that lands on the far rank carries a promotion tag,
\* and its origin/destination pair occurs exactly four times, once per type
FarRankMovesComplete(list, c) ==
  \A m \in Elems(list) :
    m.to.r = FarRow(c) =>
      /\ m.promotion \in PromotionTypes
      /\ \A t \in PromotionTypes : Count(list, [m EXCEPT !.promotion = t]) = 1
      /\ Cardinality({i \in 1..Len(list) :
                        list[i].from = m.from /\ list[i].to = m.to}) = 4

\* the board after the pawn on sq steps one square ahead, by the rules
AdvancedBoard(board, sq) ==
  LET p == At(board, sq)
      ahead == IF p.c = "w" THEN sq.r - 1 ELSE sq.r + 1
  IN SetCell(SetCell(board, ahead, sq.f, p), sq.r, sq.f, Empty)

\* the pawn on sq is one step from the far rank, the square ahead is empty,
\* no enemy piece stands diagonally ahead, and advancing does not leave its
\* own king attacked
LoneAdvance(st, sq) ==
  LET p == At(st.board, sq)
      ahead == IF p.c = "w" THEN sq.r - 1 ELSE sq.r + 1
  IN /\ p.t = "p"
     /\ ahead = FarRow(p.c)
     /\ st.board[ahead][sq.f] = Empty
     /\ \A df \in {-1, 1} :
          inside(ahead, sq.f + df) =>
            (st.board[ahead][sq.f + df] = Empty \/ st.board[ahead][sq.f + df].c = p.c)
     /\ ~KingAttacked(AdvancedBoard(st.board, sq), p.c)

\* C12: every pawn move returned by getPseudoLegalMoves or getLegalMoves that
\* lands on the far rank (row 0 for white, row 7 for black), advance or
\* capture, carries a promotion tag, and each such origin/destination pair is
\* emitted exactly four times, once for each of queen, rook, bishop, knight; a
\* pawn one step from the far rank with the square ahead empty and no capture
\* available has exactly 4 legal moves (when advancing is legal at all).
C12_PromotionCompleteness ==
  \A sq \in Squares :
    At(state.board, sq).t = "p" =>
      /\ FarRankMovesComplete(EngPseudo(state, sq), At(state.board, sq).c)
      /\ FarRankMovesComplete(EngLegal(state, sq), At(state.board, sq).c)
      /\ LoneAdvance(state, sq) => Len(EngLegal(state, sq)) = 4

(***************************************************************************)
(* C13  Promotion application                                              *)
(***************************************************************************)
\* applyMove of the move m, tagged with promotion t by the caller, puts a
\* piece of type t and of the pawn's colour on the destination and empties
\* the origin
PromotesTo(st, m, t) ==
  LET ns == EngApply(st, [m EXCEPT !.promotion = t])
  IN /\ At(ns.board, m.to) = Pc(t, At(st.board, m.from).c)
     /\ At(ns.board, m.from) = Empty

\* C13: applying a move with promotion = t places on the destination a piece
\* of type t and of the moving pawn's colour, not a pawn, and leaves the
\* origin empty; with no promotion tag the moved piece keeps its type.  Stated
\* of the move the last applyMove call received, and of every pawn move to
\* the far rank the engine generates in the current state, tagged with each
\* of the four types.
C13_PromotionApplied ==
  /\ Applied =>
       /\ At(state.board, move.from) = Empty
       /\ move.promotion # "-" =>
            /\ At(state.board, move.to) = Pc(move.promotion, Mover.c)
            /\ At(state.board, move.to).t # "p"
       /\ move.promotion = "-" => At(state.board, move.to) = Mover
  /\ \A sq \in Squares :
       At(state.board, sq).t = "p" =>
         \A m \in Elems(EngPseudo(state, sq)) :
           m.to.r = FarRow(At(state.board, sq).c) =>
             \A t \in PromotionTypes : PromotesTo(state, m, t)

\* C13 witness: a pawn has captured onto the far rank and a knight of its
\* colour stands on the destination
C13_Witness ==
  /\ Applied
  /\ Mover.t = "p"
  /\ move.promotion = "n"
  /\ move.from.f # move.to.f
  /\ At(state.board, move.to) = Pc("n", Mover.c)

(***************************************************************************)
(* C14  Pin enforcement                                                    *)
(***************************************************************************)
\* a rook of colour c on row rx stands between its own king on k and an enemy
\* rook on row ry of the king's file, with no other piece between king and
\* enemy rook
PinnedOnFile(board, c, k, rx, ry) ==
  /\ k # NoSquare
  /\ board[rx][k.f] = Pc("r", c)
  /\ board[ry][k.f] = Pc("r", Opp(c))
  /\ (k.r < rx /\ rx < ry) \/ (ry < rx /\ rx < k.r)
  /\ \A r \in Rows :
       ((k.r < r /\ r < ry) \/ (ry < r /\ r < k.r)) /\ r # rx => board[r][k.f] = Empty

\* C14: when a rook stands between its own king and an enemy rook on the same
\* file with no other piece between them (and the king is not attacked by
\* another piece), getLegalMoves for the pinned rook returns no move that
\* changes file, returns at least one move, and includes the capture of the
\* pinning rook.
C14_PinEnforcement ==
  \A c \in Colors, rx \in Rows, ry \in Rows :
    LET k == findKing(state, c)
    IN ( PinnedOnFile(state.board, c, k, rx, ry) /\ ~KingAttacked(state.board, c) ) =>
         LET legal == EngLegal(state, Sq(rx, k.f))
         IN /\ \A m \in Elems(legal) : m.to.f = k.f
            /\ Len(legal) > 0
            /\ \E m \in Elems(legal) : m.to = Sq(ry, k.f)

(***************************************************************************)
(* C15  Halfmove clock                                                     *)
(***************************************************************************)
\* the last move took a piece: one stood on its destination before the move,
\* or it is an en-passant capture
WasCapture == Applied /\ (At(prev.board, move.to) # Empty \/ move.isEnPassant)

\* C15: after applyMove, halfmoveClock is 0 if and only if the moved piece is
\* a pawn or the move captures a piece (a piece on the destination before the
\* move, or the pawn removed en passant); in every other case it is the
\* previous halfmoveClock plus 1.
C15_HalfmoveClock ==
  Applied =>
    /\ state.halfmoveClock = 0 <=> (Mover.t = "p" \/ WasCapture)
    /\ ~(Mover.t = "p" \/ WasCapture) => state.halfmoveClock = prev.halfmoveClock + 1

\* C15 witness: a piece other than a pawn has captured and reset a clock that
\* was running, after a quiet move that advanced it
C15_Witness ==
  /\ Applied
  /\ Mover.t # "p"
  /\ WasCapture
  /\ prev.halfmoveClock = 5
  /\ state.halfmoveClock = 0

(***************************************************************************)
(* C16  Turn and fullmove number                                           *)
(***************************************************************************)
\* C16: every applyMove flips turn, and fullmoveNumber increases by exactly 1
\* when the turn before the move was black and is unchanged when it was
\* white; hence in every state reached from createInitialState after n
\* applied moves, turn is white iff n is even and fullmoveNumber is
\* 1 + floor(n / 2).
C16_TurnAndFullmove ==
  /\ Applied =>
       /\ state.turn = Opp(prev.turn)
       /\ state.fullmoveNumber =
            IF prev.turn = "b" THEN prev.fullmoveNumber + 1 ELSE prev.fullmoveNumber
  /\ origin \in {createInitialState, core_createInitialState} =>
       /\ state.turn = "w" <=> ply % 2 = 0
       /\ state.fullmoveNumber = 1 + (ply \div 2)

\* C16 witness: black has completed the first move pair of a game started
\* from createInitialState
C16_Witness ==
  /\ origin \in {createInitialState, core_createInitialState}
  /\ Applied
  /\ ply = 2
  /\ prev.turn = "b"
  /\ state.fullmoveNumber = 2

(***************************************************************************)
(* C17, C18  Game status                                                   *)
(***************************************************************************)
\* getGameStatus has been called on the current state
StatusKnown == engine = "proto" /\ Applied

\* the side to move is in check, by the rules of chess
InCheck == KingAttacked(state.board, state.turn)

\* getAllLegalMoves for the side to move is empty
NoLegalMove == Len(getAllLegalMoves(state, state.turn)) = 0

\* C17: getGameStatus returns checkmate with winner = the opponent of the
\* side to move exactly when the side to move is in check and
\* getAllLegalMoves is empty; it returns stalemate with no winner exactly when
\* the side to move is not in check and that list is empty; a winner is
\* reported for no other status.
C17_NoLegalMoveStatus ==
  StatusKnown =>
    /\ status = Status("checkmate", Opp(state.turn)) <=> (InCheck /\ NoLegalMove)
    /\ status = Status("stalemate", "-") <=> (~InCheck /\ NoLegalMove)
    /\ status.status = "checkmate" => status.winner = Opp(state.turn)
    /\ status.status # "checkmate" => status.winner = "-"

\* C18: getGameStatus reports the fifty-move draw exactly when halfmoveClock
\* >= 100 and the side to move has at least one legal move, in check or not;
\* with halfmoveClock >= 100 and no legal move the result is still checkmate
\* or stalemate; check is reported only when the side to move is in check, has
\* a legal move and halfmoveClock < 100; ongoing otherwise.
C18_FiftyMovePrecedence ==
  StatusKnown =>
    /\ status.status = "draw_50_moves" <=> (state.halfmoveClock >= 100 /\ ~NoLegalMove)
    /\ (state.halfmoveClock >= 100 /\ NoLegalMove) =>
         status.status \in {"checkmate", "stalemate"}
    /\ status.status = "check" =>
         (InCheck /\ ~NoLegalMove /\ state.halfmoveClock < 100)
    /\ status.status = "ongoing" <=>
         (~InCheck /\ ~NoLegalMove /\ state.halfmoveClock < 100)

(***************************************************************************)
(* C19  applyMove on an empty from square                                  *)
(***************************************************************************)
\* C19: when the from square of the move holds no piece, applyMove fails with
\* an explicit error instead of returning a state, and the input state is
\* exactly as it was before the call.  A step that applies no move is such a
\* call.
C19_ContractViolation ==
  [][ ply' = ply => (thrown' = NoPieceError /\ state' = state) ]_vars

(***************************************************************************)
(* C20  Querying an empty square                                           *)
(***************************************************************************)
\* C20: for every square with no piece, getLegalMoves and getPseudoLegalMoves
\* both return the empty list, and raise no failure.
C20_EmptySquareQuery ==
  \A sq \in Squares :
    At(state.board, sq) = Empty =>
      /\ EngPseudo(state, sq) = <<>>
      /\ EngLegal(state, sq) = <<>>

\* C20 witness: the square the last move left is empty and both queries on it
\* return the empty list
C20_Witness ==
  /\ Applied
  /\ At(state.board, move.from) = Empty
  /\ EngPseudo(state, move.from) = <<>>
  /\ EngLegal(state, move.from) = <<>>

(***************************************************************************)
(* C21  Threefold repetition                                               *)
(***************************************************************************)
\* number of positions of the game so far that have the signature sig
Occurrences(sig) == Cardinality({i \in 1..Len(reached) : reached[i] = sig})

\* the hash of a position with signature sig under the state's table
HashOf(st, sig) ==
  computeHash([st EXCEPT
                 !.board = sig.board,
                 !.turn = sig.turn,
                 !.whiteCanCastleK = sig.castling[1],
                 !.whiteCanCastleQ = sig.castling[2],
                 !.blackCanCastleK = sig.castling[3],
                 !.blackCanCastleQ = sig.castling[4],
                 !.enPassantTarget =
                    IF sig.epFile = -1 THEN NoSquare ELSE Sq(0, sig.epFile)])

\* C21: in a game played from createInitialState, threefoldAvailable is true
\* exactly when the position just reached (placement, side to move, the four
\* castling flags, en-passant file) has occurred at least three times among
\* the positions of the game so far, the initial position counting as one;
\* positionCounts holds, for every position of the game and for nothing else,
\* the number of times it occurred.
C21_ThreefoldAvailable ==
  (engine = "proto" /\ origin = createInitialState /\ Applied) =>
     /\ state.threefoldAvailable <=> Occurrences(Signature(state)) >= 3
     /\ \A i \in 1..Len(reached) :
          CountOf(state.positionCounts, HashOf(state, reached[i]))
            = Occurrences(reached[i])
     /\ Cardinality(DOMAIN state.positionCounts)
          = Cardinality({reached[i] : i \in 1..Len(reached)})

\* a position other than the initial one has been reached for the third time
C21_Witness ==
  /\ engine = "proto" /\ origin = createInitialState /\ Applied
  /\ state.threefoldAvailable
  /\ Occurrences(Signature(state)) = 3
  /\ state.board # origin.board

(***************************************************************************)
(* C22  The hash depends on the position only                              *)
(***************************************************************************)
\* C22: computeHash gives the same value for any two states that agree on
\* placement, side to move, the four castling flags and the en-passant file,
\* also when the two states descend from two separate createInitialState
\* calls.  Stated on the states the App holds or held: the state it started
\* from, the state the last applyMove call received, the current state.
C22_HashBySignature ==
  \A a, b \in {origin, prev, state} :
     Signature(a) = Signature(b) => computeHash(a) = computeHash(b)

(***************************************************************************)
(* C23  The calls leave the caller's state as it was                       *)
(***************************************************************************)
EngApplyOutcome(st, m) ==
  IF engine = "proto" THEN applyMoveOutcome(st, m) ELSE core_applyMoveOutcome(st, m)

EngLegalOutcome(st, from) ==
  IF engine = "proto" THEN getLegalMovesOutcome(st, from)
  ELSE core_getLegalMovesOutcome(st, from)

Kings(board, c) == {sq \in Squares : At(board, sq) = Pc("k", c)}

\* C24: in every state reached from createInitialState (or from another
\* position of a real game) by moves that getLegalMoves returned for a piece
\* of the side to move, the board holds exactly one white king and exactly
\* one black king.
C24_OneKingEach ==
  \A c \in Colors : Cardinality(Kings(state.board, c)) = 1

\* the side to move was in check and has answered: its king was not taken and
\* still stands
C24_Witness ==
  /\ Applied
  /\ KingAttacked(prev.board, prev.turn)
  /\ At(prev.board, move.to) # Empty
  /\ \A c \in Colors : Cardinality(Kings(state.board, c)) = 1

(***************************************************************************)
(* C25  SAN disambiguation                                                 *)
(***************************************************************************)
\* another piece of the mover's type and colour has a legal move to the same
\* destination
LegalRival(st, m) ==
  \E x \in Squares :
    /\ x # m.from
    /\ At(st.board, x) = At(st.board, m.from)
    /\ \E o \in Elems(getLegalMoves(st, x)) : o.to = m.to

\* C25: the SAN text of a move of a piece other than a pawn, castling apart,
\* has the origin file letter right after the piece letter exactly when
\* another piece of the same type and colour has a legal move (getLegalMoves)
\* to the same destination; a like piece that reaches the destination only
\* pseudo-legally, being pinned, does not bring the file letter.
C25_Disambiguation ==
  (engine = "proto" /\ Applied /\ Mover.t # "p" /\ ~move.isCastling) =>
     state.moveHistory[Len(state.moveHistory)]
       = SanText(prev, move, state, LegalRival(prev, move))

(***************************************************************************)
(* C26  A castling flag implies king and rook at home                      *)
(***************************************************************************)
\* C26: in every state reached from createInitialState by legal moves, a
\* castling flag that is true implies that the king of that colour stands on
\* the e-file square of its back rank and a rook of that colour stands on the
\* matching corner.
C26_RightImpliesHome ==
  \A c \in Colors, side \in Sides :
    Right(state, c, side) =>
      /\ At(state.board, KingHome(c)) = Pc("k", c)
      /\ At(state.board, Corner(c, side)) = Pc("r", c)

(***************************************************************************)
(* C27  No pawn on a back rank                                             *)
(***************************************************************************)
\* C27: in every state reached from createInitialState by legal moves of the
\* side to move, no pawn of either colour stands on row 0 or on row 7.
C27_NoPawnOnBackRank ==
  \A sq \in Squares : sq.r \in {0, 7} => At(state.board, sq).t # "p"

(***************************************************************************)
(* C28  Shape of the en-passant target                                     *)
(***************************************************************************)
\* C28: when enPassantTarget is not null, its row is 5 if black is to move
\* and 2 if white is to move, the target square is empty, and the square next
\* to it on the same file (row 4, respectively row 3) holds a pawn of the side
\* that has just moved.
C28_EnPassantTargetShape ==
  state.enPassantTarget # NoSquare =>
    LET t == state.enPassantTarget
    IN /\ t.r = (IF state.turn = "b" THEN 5 ELSE 2)
       /\ At(state.board, t) = Empty
       /\ At(state.board, Sq(IF state.turn = "b" THEN 4 ELSE 3, t.f))
            = Pc("p", Opp(state.turn))

\* a target is pending after a double step made in answer to another move
C28_Witness ==
  /\ ply >= 2
  /\ state.enPassantTarget # NoSquare
  /\ Mover.t = "p"
  /\ Abs(move.to.r - move.from.r) = 2
  /\ At(state.board, state.enPassantTarget) = Empty

(***************************************************************************)
(* C29  Attack detection agrees with move generation                       *)
(***************************************************************************)
\* some piece of colour c has a pseudo-legal move to sq that is neither
\* castling nor en passant
PseudoReaches(st, sq, c) ==
  \E x \in Squares :
    /\ At(st.board, x).c = c
    /\ \E m \in Elems(EngPseudo(st, x)) :
         m.to = sq /\ ~m.isCastling /\ ~m.isEnPassant

\* C29: for every colour c and every square sq occupied by a piece of the
\* other colour, isSquareAttacked(state, sq, c) is true if and only if some
\* piece of colour c has a pseudo-legal move to sq that is neither castling
\* nor en passant.
C29_AttackIffPseudoMove ==
  \A sq \in Squares, c \in Colors :
    At(state.board, sq).c = Opp(c) =>
      (EngAttacked(state, sq, c) <=> PseudoReaches(state, sq, c))

(***************************************************************************)
(* C30  The App submits only current legal moves                           *)
(***************************************************************************)
\* C30: whatever the sequence of square clicks, promotion choices, Claim draw
\* and Reset, every move the App passes to applyMove is in the list
\* getLegalMoves returns for the move's from square in the state it is
\* applied to, and moves a piece of the side to move: a selection or a legal
\* list cached in an earlier state is never used once the state has been
\* replaced.
C30_SubmittedMoveIsLegal ==
  Applied =>
    /\ At(prev.board, move.from).c = prev.turn
    /\ move \in Elems(getLegalMoves(prev, move.from))

====
